---------------------------- MODULE Spec2Model ----------------------------
(***************************************************************************)
(* The per-batch step protocol of lighter's System (src/lighter/system.py) *)
(* and of its predecessor lightningbringer's System                        *)
(* (src/lightningbringer/system.py).                                       *)
(*                                                                         *)
(* A step is one call of System._step by the trainer.  The collaborators   *)
(* (model, inferer, criterion, metrics, logger) are opaque callables that  *)
(* return normally; what the criterion returns is an input of each step.   *)
(* Every step leaves a trace in `last`: the collaborators it called, in     *)
(* order, the log records it emitted, and what it returned or raised.      *)
(***************************************************************************)
EXTENDS Naturals, Sequences, FiniteSets, TLC

VARIABLES
    cfg,         \* the System as constructed (a lighter or a lightningbringer one)
    mode,        \* the mode of the epoch the trainer is running
    batch_idx,   \* the index of the next batch of the epoch
    optLogged,   \* the batch indices of this epoch whose step logged the optimizer stats
    halted,      \* a step raised: the run is over
    last,        \* the trace of the most recent step
    opt,         \* the optimizer's param_groups and the last access to System.learning_rate
    cli,         \* a call of lighter's run_trainer_method
    args,        \* an `args` section and what ArgsConfigSchema made of it
    run,         \* a call of lightningbringer's run
    fwd,         \* the model's forward signature, the trainer's counters, the last prediction
    met,         \* the metric objects of a lighter System and their accumulated updates
    sys,         \* the dataloaders given to a lighter System and the handlers it bound
    lb           \* a lightningbringer System: its datasets and the methods setup bound

\* the variables of the step protocol
stepVars == <<cfg, mode, batch_idx, optLogged, halted, last>>

vars == <<cfg, mode, batch_idx, optLogged, halted, last, opt, cli, args, run, fwd, met, sys, lb>>

\* a part of the program that takes no part in the run at hand
Idle == [class |-> "idle"]

\* every variable outside stepVars but those named in `changed` stays as it is
Frame(changed) ==
    /\ IF "opt" \in changed THEN TRUE ELSE UNCHANGED opt
    /\ IF "cli" \in changed THEN TRUE ELSE UNCHANGED cli
    /\ IF "args" \in changed THEN TRUE ELSE UNCHANGED args
    /\ IF "run" \in changed THEN TRUE ELSE UNCHANGED run
    /\ IF "fwd" \in changed THEN TRUE ELSE UNCHANGED fwd
    /\ IF "met" \in changed THEN TRUE ELSE UNCHANGED met
    /\ IF "sys" \in changed THEN TRUE ELSE UNCHANGED sys
    /\ IF "lb" \in changed THEN TRUE ELSE UNCHANGED lb

\* all of them but `v` are idle
IdleBut(v) ==
    /\ IF v = "opt" THEN TRUE ELSE opt = Idle
    /\ IF v = "cli" THEN TRUE ELSE cli = Idle
    /\ IF v = "args" THEN TRUE ELSE args = Idle
    /\ IF v = "run" THEN TRUE ELSE run = Idle
    /\ IF v = "fwd" THEN TRUE ELSE fwd = Idle
    /\ IF v = "met" THEN TRUE ELSE met = Idle
    /\ IF v = "sys" THEN TRUE ELSE sys = Idle
    /\ IF v = "lb" THEN TRUE ELSE lb = Idle

---------------------------------------------------------------------------
(* Bounds *)

\* batches per epoch
MaxBatches == 2
\* distinct loss values a criterion may return
MaxLoss == 2

---------------------------------------------------------------------------
(* Values *)

TRAIN == "train"
VAL == "val"
TEST == "test"
PREDICT == "predict"
Mode == {TRAIN, VAL, TEST, PREDICT}

\* Python's None, a scalar tensor, a dict of tensors
None == [kind |-> "None"]
Tensor(v) == [kind |-> "tensor", v |-> v]
Dict(d) == [kind |-> "dict", d |-> d]

\* The keys a dataloader may put in a batch ("extra" stands for any other key)
BatchKeys == {"input", "target", "id", "extra"}
\* The value a dataloader puts under each key
BatchValues == [input |-> "x1", target |-> "y1", id |-> "id1", extra |-> "e1"]
Batches == {[k \in ks |-> BatchValues[k]] : ks \in SUBSET BatchKeys}

LossNames == {"total", "aux"}
LossValues == 1..MaxLoss
\* What a criterion may return: a scalar, or a dict of named sub-losses
CriterionResults ==
    {Tensor(v) : v \in LossValues}
        \cup UNION {{Dict(d) : d \in [ns -> LossValues]} : ns \in SUBSET LossNames}

MetricNames == {"acc", "f1"}
MetricKinds == {"none", "single", "collection"}
MetricModes == {TRAIN, VAL, TEST}

\* lighter.System(model, dataloaders, optimizer, scheduler, criterion, metrics, inferer)
\* and the trainer's logger
LighterConfigs == [class : {"lighter"}, criterion : BOOLEAN, inferer : BOOLEAN,
                   logger : BOOLEAN, metrics : [MetricModes -> MetricKinds]]

\* lightningbringer.System(model, batch_size, criterion, metrics, ...)
LBConfigs == [class : {"lightningbringer"}, criterion : BOOLEAN,
              metrics : SUBSET MetricNames]

---------------------------------------------------------------------------
(* Collaborators *)

\* Batch(**batch): the structured batch, or the constructor's TypeError
BatchAccepted(batch) ==
    "input" \in DOMAIN batch /\ DOMAIN batch \subseteq {"input", "target", "id"}

BatchField(batch, k) == IF k \in DOMAIN batch THEN batch[k] ELSE "None"

\* what Batch(**batch) raises for a batch it does not accept
BatchConstructorError(batch) ==
    [type |-> "TypeError",
     msg |-> IF "input" \notin DOMAIN batch THEN "missing required argument: 'input'"
             ELSE "got an unexpected keyword argument"]

Batch(batch) == [id |-> BatchField(batch, "id"),
                 input |-> BatchField(batch, "input"),
                 target |-> BatchField(batch, "target")]

\* System.forward: the model called on the input
forward(input) == [by |-> "model", input |-> input]

\* the inferer called with the input and the System
inferer(input) == [by |-> "inferer", input |-> input]

\* what the mode's metric object returns when called with (pred, target)
MetricResult(kind) ==
    IF kind = "collection" THEN Dict([n \in MetricNames |-> 1]) ELSE Tensor(1)

\* get_optimizer_stats(self.optimizer)
get_optimizer_stats == [n \in {"optimizer/SGD/lr", "optimizer/SGD/momentum"} |-> 0]

---------------------------------------------------------------------------
(* lighter: System._log and System._log_stats *)

\* (variant: no record is synchronized)
_log_NeverSync(name, value, on_step, on_epoch) ==
    [name |-> name, value |-> value, logger |-> TRUE,
     on_step |-> on_step, on_epoch |-> on_epoch, sync_dist |-> FALSE]

\* self.log(name, value, logger=True, on_step, on_epoch, sync_dist=on_epoch)
_log(name, value, on_step, on_epoch) ==
    [name |-> name, value |-> value, logger |-> TRUE,
     on_step |-> on_step, on_epoch |-> on_epoch, sync_dist |-> on_epoch]

\* (variant: the missing logger is not looked at)
LoggerIsNone_Never(c) == FALSE

\* `if self.trainer.logger is None: return`
LoggerIsNone(c) == ~c.logger

\* (variant: a dict of losses is logged by its step records only)
LossRecords_StepOnly(loss, m) ==
    IF loss.kind = "None" THEN {}
    ELSE IF loss.kind # "dict"
    THEN {[name |-> m \o "/loss/step", value |-> loss.v, logger |-> TRUE,
           on_step |-> TRUE, on_epoch |-> FALSE, sync_dist |-> FALSE],
          [name |-> m \o "/loss/epoch", value |-> loss.v, logger |-> TRUE,
           on_step |-> FALSE, on_epoch |-> TRUE, sync_dist |-> TRUE]}
    ELSE {[name |-> m \o "/loss/" \o name \o "/step", value |-> loss.d[name], logger |-> TRUE,
           on_step |-> TRUE, on_epoch |-> FALSE, sync_dist |-> FALSE] : name \in DOMAIN loss.d}

\* the records of the loss
LossRecords(loss, m) ==
    IF loss.kind = "None" THEN {}
    ELSE IF loss.kind # "dict"
    THEN {_log(m \o "/loss/step", loss.v, TRUE, FALSE),
          _log(m \o "/loss/epoch", loss.v, FALSE, TRUE)}
    ELSE UNION {{_log(m \o "/loss/" \o name \o "/step", loss.d[name], TRUE, FALSE),
                 _log(m \o "/loss/" \o name \o "/epoch", loss.d[name], FALSE, TRUE)}
                    : name \in DOMAIN loss.d}

\* `metrics.items()` exists for the mapping a MetricCollection returns, and
\* raises AttributeError for the tensor a single Metric returns
MetricsHasItems(metrics) == metrics.kind = "dict"

\* the records of the metrics
MetricRecords(metrics, m) ==
    IF metrics.kind # "dict" THEN {}
    ELSE UNION {{_log(m \o "/metrics/" \o name \o "/step", metrics.d[name], TRUE, FALSE),
                 _log(m \o "/metrics/" \o name \o "/epoch", metrics.d[name], FALSE, TRUE)}
                    : name \in DOMAIN metrics.d}

\* (variant: the optimizer's stats are logged with every train batch)
LogsOptimizerStats_EveryBatch(m, idx) == m = TRAIN

\* `if mode == Mode.TRAIN and batch_idx == 0`
LogsOptimizerStats(m, idx) == m = TRAIN /\ idx = 0

\* the records of the optimizer's stats
OptimizerRecords(m) ==
    {_log(m \o "/" \o name, get_optimizer_stats[name], FALSE, TRUE)
        : name \in DOMAIN get_optimizer_stats}

\* _log_stats: the records emitted, and whether it raised on the way
_log_stats(c, loss, metrics, m, idx) ==
    IF LoggerIsNone(c) THEN [raised |-> FALSE, logs |-> {}]
    ELSE IF metrics.kind # "None" /\ ~MetricsHasItems(metrics)
    THEN [raised |-> TRUE, logs |-> LossRecords(loss, m)]
    ELSE [raised |-> FALSE,
          logs |-> LossRecords(loss, m) \cup MetricRecords(metrics, m)
                     \cup (IF LogsOptimizerStats(m, idx) THEN OptimizerRecords(m) ELSE {})]

---------------------------------------------------------------------------
(* lighter: System._step *)

BatchSchemaMsg == "Batch must be a dict with keys: 'input', 'target' (optional), 'id' (optional)."
MissingTotalMsg == "The loss dictionary must include a 'total' key that combines all sublosses."

\* the trace of a step that returned `result`
Return(m, idx, batch, calls, logs, result) ==
    [sys |-> "lighter", mode |-> m, batch_idx |-> idx, batch |-> batch,
     critOut |-> None, calls |-> calls, logs |-> logs,
     outcome |-> "return", error |-> [type |-> "None", msg |-> "None"], result |-> result]

\* the trace of a step that raised `error`
Raise(m, idx, batch, calls, logs, error) ==
    [sys |-> "lighter", mode |-> m, batch_idx |-> idx, batch |-> batch,
     critOut |-> None, calls |-> calls, logs |-> logs,
     outcome |-> "raise", error |-> error, result |-> None]

\* an exception
Error(type, msg) == [type |-> type, msg |-> msg]

\* (variant: the constructor's error is raised again as it is)
BatchError_Bare(e) == e

\* `except (TypeError, ValueError) as e: raise type(e)(f"Batch must be a dict with keys: ...")`
BatchError(e) == Error(e.type, BatchSchemaMsg)

\* (variant: input and target unpacked in the wrong order)
Unpack_Swapped(b) == [id |-> b.id, input |-> b.target, target |-> b.input]

\* `id, input, target = batch.id, batch.input, batch.target`
Unpack(b) == [id |-> b.id, input |-> b.input, target |-> b.target]

\* (variant: the inferer is used in every mode)
UsesInferer_AnyMode(c, m) == c.inferer

\* `if self.inferer and mode in [Mode.VAL, Mode.TEST, Mode.PREDICT]`
UsesInferer(c, m) == c.inferer /\ m \in {VAL, TEST, PREDICT}

\* (variant: the early return of predict mode is missing)
PredictStops_Never(m) == FALSE

\* `if mode == Mode.PREDICT: return {pred, id}`
PredictStops(m) == m = PREDICT

\* (variant: the loss is calculated in test mode too)
CallsCriterion_AlsoTest(m) == m \in {TRAIN, VAL, TEST}

\* `if mode in [Mode.TRAIN, Mode.VAL]: loss = self.criterion(...)`
CallsCriterion(m) == m \in {TRAIN, VAL}

\* `if mode in self.metrics and self.metrics[mode] is not None`
HasMetrics(c, m) == m \in DOMAIN c.metrics /\ c.metrics[m] # "none"

\* (variant: the dict of losses is not checked)
MissingTotal_Unchecked(loss) == FALSE

\* `if isinstance(loss, dict) and "total" not in loss: raise ValueError`
MissingTotal(loss) == loss.kind = "dict" /\ "total" \notin DOMAIN loss.d

\* (variant: the dict of losses is returned as it is)
ReturnedLoss_Whole(loss) == loss

\* `loss["total"] if isinstance(loss, dict) else loss`
ReturnedLoss(loss) == IF loss.kind = "dict" THEN Tensor(loss.d["total"]) ELSE loss

\* (variant: the target of the result is taken from the input)
StepResult_TargetFromInput(loss, metrics, b, pred) ==
    [loss |-> IF loss.kind = "dict" THEN Tensor(loss.d["total"]) ELSE loss,
     metrics |-> metrics,
     input |-> b.input, target |-> b.input, pred |-> pred, id |-> b.id]

\* the dict a train, val or test step returns
StepResult(loss, metrics, b, pred) ==
    [loss |-> ReturnedLoss(loss), metrics |-> metrics,
     input |-> b.input, target |-> b.target, pred |-> pred, id |-> b.id]

\* the dict a predict step returns
PredictResult(b, pred) == [pred |-> pred, id |-> b.id]

\* _step from the metrics on (lines 156-179)
StepTail(c, m, idx, batch, b, pred, loss, calls) ==
    LET withMetrics == HasMetrics(c, m)
        metrics == IF withMetrics THEN MetricResult(c.metrics[m]) ELSE None
        calls2 == IF withMetrics THEN Append(calls, "metrics") ELSE calls
        stats == _log_stats(c, loss, metrics, m, idx)
        calls3 == Append(calls2, "_log_stats")
    IN  IF MissingTotal(loss)
        THEN Raise(m, idx, batch, calls2, {}, Error("ValueError", MissingTotalMsg))
        ELSE IF stats.raised
        THEN Raise(m, idx, batch, calls3, stats.logs,
                   Error("AttributeError", "'Tensor' object has no attribute 'items'"))
        ELSE IF loss.kind = "dict" /\ "total" \notin DOMAIN loss.d
        THEN Raise(m, idx, batch, calls3, stats.logs, Error("KeyError", "'total'"))
        ELSE Return(m, idx, batch, calls3, stats.logs, StepResult(loss, metrics, b, pred))

\* System._step(batch, batch_idx, mode), the criterion returning critOut when called
_step(c, batch, idx, m, critOut) ==
    IF ~BatchAccepted(batch)
    THEN Raise(m, idx, batch, <<"Batch">>, {}, BatchError(BatchConstructorError(batch)))
    ELSE
    LET b == Unpack(Batch(batch))
        viaInferer == UsesInferer(c, m)
        pred == IF viaInferer THEN inferer(b.input) ELSE forward(b.input)
        calls1 == <<"Batch", IF viaInferer THEN "inferer" ELSE "forward">>
    IN  IF PredictStops(m)
        THEN Return(m, idx, batch, calls1, {}, PredictResult(b, pred))
        ELSE IF CallsCriterion(m) /\ ~c.criterion
        THEN Raise(m, idx, batch, Append(calls1, "criterion"), {},
                   Error("TypeError", "'NoneType' object is not callable"))
        ELSE IF CallsCriterion(m)
        THEN [StepTail(c, m, idx, batch, b, pred, critOut, Append(calls1, "criterion"))
                EXCEPT !.critOut = critOut]
        ELSE StepTail(c, m, idx, batch, b, pred, None, calls1)

---------------------------------------------------------------------------
(* lightningbringer: System._log and System._step *)

\* log_by_type(data, name, "scalar"): self.log(name, data, on_step=True, on_epoch=True)
log_by_type(name, value) ==
    [name |-> name, value |-> value, logger |-> TRUE,
     on_step |-> TRUE, on_epoch |-> TRUE, sync_dist |-> FALSE]

\* _log(mode, input, target, pred, metrics, loss) with log_input_as, log_target_as
\* and log_pred_as left at None
LB_log(m, metrics, loss) ==
    (IF loss.kind # "None" THEN {log_by_type(m \o "/loss", loss.v)} ELSE {})
        \cup {log_by_type(m \o "/metric_" \o name, 1) : name \in metrics}

\* `... if mode != "test" else None`
LBCallsCriterion(m) == m # "test"

\* _step(batch, batch_idx, mode), the criterion returning critOut when called
LB_step(c, batch, idx, m, critOut) ==
    LET pred == forward(batch.input)
        loss == IF LBCallsCriterion(m) THEN critOut ELSE None
        critCalls == IF LBCallsCriterion(m) THEN <<"criterion", "criterion">> ELSE <<>>
        metricCalls == [i \in 1..Cardinality(c.metrics) |-> "metrics"]
    IN  IF LBCallsCriterion(m) /\ ~c.criterion
        THEN [sys |-> "lightningbringer", mode |-> m, batch_idx |-> idx, batch |-> batch,
              critOut |-> None, calls |-> <<"forward", "criterion">>, logs |-> {},
              outcome |-> "raise",
              error |-> [type |-> "TypeError", msg |-> "'NoneType' object is not callable"],
              result |-> None]
        ELSE [sys |-> "lightningbringer", mode |-> m, batch_idx |-> idx, batch |-> batch,
              critOut |-> loss,
              calls |-> <<"forward">> \o critCalls \o metricCalls \o <<"_log">>,
              logs |-> LB_log(m, c.metrics, loss),
              outcome |-> "return", error |-> [type |-> "None", msg |-> "None"],
              result |-> loss]

---------------------------------------------------------------------------
(* The trainer: epochs of steps in one mode *)

NoStep == [sys |-> "None", mode |-> "None", batch_idx |-> 0, batch |-> <<>>,
           critOut |-> None, calls |-> <<>>, logs |-> {},
           outcome |-> "None", error |-> [type |-> "None", msg |-> "None"],
           result |-> None]

\* the modes whose step method a System has
StepModes(c) == IF c.class = "lighter" THEN Mode ELSE {TRAIN, VAL, TEST}

Init ==
    /\ cfg \in LighterConfigs \cup LBConfigs
    /\ mode \in StepModes(cfg)
    /\ batch_idx = 0
    /\ optLogged = {}
    /\ halted = FALSE
    /\ last = NoStep
    /\ IdleBut("none")

\* no step protocol in this run
NoSteps ==
    /\ cfg = Idle /\ mode = "None" /\ batch_idx = 0 /\ optLogged = {}
    /\ halted = FALSE /\ last = NoStep

\* the bookkeeping of the trainer after a step
AfterStep(trace) ==
    /\ last' = trace
    /\ halted' = (trace.outcome = "raise")
    /\ batch_idx' = IF trace.outcome = "raise" THEN batch_idx ELSE batch_idx + 1
    /\ optLogged' = IF trace.logs \cap OptimizerRecords(trace.mode) # {}
                    THEN optLogged \cup {batch_idx} ELSE optLogged
    /\ UNCHANGED <<cfg, mode>>
    /\ Frame({})

\* what the criterion may return in a step: one of its results if the step gets to
\* call it, nothing otherwise
CriterionOutputs(c, batch, m) ==
    IF BatchAccepted(batch) /\ CallsCriterion(m) /\ c.criterion
    THEN CriterionResults ELSE {None}

\* training_step / validation_step / test_step / predict_step of lighter's System
Step ==
    /\ ~halted
    /\ cfg.class = "lighter"
    /\ batch_idx < MaxBatches
    /\ \E batch \in Batches :
          \E critOut \in CriterionOutputs(cfg, batch, mode) :
              \E trace \in {_step(cfg, batch, batch_idx, mode, critOut)} : AfterStep(trace)

\* training_step / validation_step / test_step of lightningbringer's System
LBStep ==
    /\ ~halted
    /\ cfg.class = "lightningbringer"
    /\ batch_idx < MaxBatches
    /\ \E v \in LossValues :
          \E trace \in {LB_step(cfg, [k \in {"input", "target"} |-> BatchValues[k]],
                                 batch_idx, mode, Tensor(v))} :
              AfterStep(trace)

\* the trainer starts the next epoch, in any mode the System has a step for
NewEpoch ==
    /\ ~halted
    /\ \E m \in StepModes(cfg) : mode' = m
    /\ batch_idx' = 0
    /\ optLogged' = {}
    /\ last' = NoStep
    /\ UNCHANGED <<cfg, halted>>
    /\ Frame({})

Next == Step \/ LBStep \/ NewEpoch

Spec == Init /\ [][Next]_vars

---------------------------------------------------------------------------
(* lighter: System.learning_rate *)

\* parameter groups of the optimizer
MaxGroups == 3
\* distinct learning rates
MaxLR == 3

LRValues == 1..MaxLR
ParamGroups == UNION {[1..n -> [lr : LRValues]] : n \in 1..MaxGroups}

MultiGroupMsg ==
    "The learning rate is not available when there are multiple optimizer parameter groups."

\* `if len(self.optimizer.param_groups) > 1: raise ValueError(...)`
MultipleGroups(pg) == Len(pg) > 1

\* the getter: what it returns or raises
learning_rate(pg) ==
    IF MultipleGroups(pg)
    THEN [outcome |-> "raise", error |-> MultiGroupMsg, value |-> 0]
    ELSE [outcome |-> "return", error |-> "None", value |-> pg[1].lr]

\* (variant: the setter does not look at the number of groups)
learning_rate_setter_Unguarded(pg, value) ==
    [outcome |-> "return", error |-> "None",
     param_groups |-> [pg EXCEPT ![1] = [@ EXCEPT !.lr = value]]]

\* the setter: the param_groups it leaves, and whether it raised
learning_rate_setter(pg, value) ==
    IF MultipleGroups(pg)
    THEN [outcome |-> "raise", error |-> MultiGroupMsg, param_groups |-> pg]
    ELSE [outcome |-> "return", error |-> "None",
          param_groups |-> [pg EXCEPT ![1] = [@ EXCEPT !.lr = value]]]

InitLR ==
    /\ NoSteps
    /\ IdleBut("opt")
    /\ \E pg \in ParamGroups :
          opt = [param_groups |-> pg, op |-> "None", before |-> pg, value |-> 0,
                 outcome |-> "None", error |-> "None", assigned |-> 0]

\* `system.learning_rate`
GetLearningRate ==
    /\ opt # Idle
    /\ \E r \in {learning_rate(opt.param_groups)} :
          opt' = [opt EXCEPT !.op = "get", !.before = opt.param_groups,
                             !.value = r.value, !.outcome = r.outcome, !.error = r.error]
    /\ UNCHANGED stepVars /\ Frame({"opt"})

\* `system.learning_rate = value`
SetLearningRate ==
    /\ opt # Idle
    /\ \E value \in LRValues :
          \E r \in {learning_rate_setter(opt.param_groups, value)} :
             opt' = [opt EXCEPT !.op = "set", !.before = opt.param_groups,
                                !.param_groups = r.param_groups,
                                !.value = value, !.outcome = r.outcome, !.error = r.error,
                                !.assigned = IF r.outcome = "return" THEN value ELSE @]
    /\ UNCHANGED stepVars /\ Frame({"opt"})

NextLR == GetLearningRate \/ SetLearningRate

SpecLR == InitLR /\ [][NextLR]_vars

---------------------------------------------------------------------------
(* lighter: cli.run_trainer_method *)

\* config files on one command line
MaxConfigs == 3

\* the subcommands of `interface`
TrainerMethods == {"fit", "validate", "predict", "test", "tune"}

\* the config files given: for each, whether it declares `project`
ConfigFiles == UNION {[1..n -> BOOLEAN] : n \in 0..MaxConfigs}

\* something run_trainer_method does, for config file `file` (0: for none)
Event(ev, file) == [ev |-> ev, file |-> file]

\* (variant: the project of every declaring file is imported, the check is gone)
RECURSIVE LoadConfigs_NoCheck(_, _, _, _)
LoadConfigs_NoCheck(files, i, project_imported, events) ==
    IF i > Len(files) THEN [exited |-> FALSE, events |-> events]
    ELSE IF files[i]
    THEN LoadConfigs_NoCheck(files, i + 1, TRUE,
                             events \o <<Event("load", i), Event("import", i)>>)
    ELSE LoadConfigs_NoCheck(files, i + 1, project_imported, Append(events, Event("load", i)))

\* the loop over the config files, from file i on
RECURSIVE LoadConfigs(_, _, _, _)
LoadConfigs(files, i, project_imported, events) ==
    IF i > Len(files) THEN [exited |-> FALSE, events |-> events]
    ELSE IF files[i]
    THEN IF project_imported
         THEN [exited |-> TRUE,
               events |-> events \o <<Event("load", i), Event("error", i), Event("exit", i)>>]
         ELSE LoadConfigs(files, i + 1, TRUE,
                          events \o <<Event("load", i), Event("import", i)>>)
    ELSE LoadConfigs(files, i + 1, project_imported, Append(events, Event("load", i)))

\* run_trainer_method(name, **kwargs)
run_trainer_method(name, has_config_file, files) ==
    LET loaded == IF has_config_file THEN LoadConfigs(files, 1, FALSE, <<>>)
                  ELSE [exited |-> FALSE, events |-> <<>>]
    IN  IF loaded.exited THEN [pc |-> "exited", events |-> loaded.events]
        ELSE [pc |-> "returned", events |-> Append(loaded.events, Event("run", 0))]

InitCli ==
    /\ NoSteps
    /\ IdleBut("cli")
    /\ \E name \in TrainerMethods, has_config_file \in BOOLEAN, files \in ConfigFiles :
          /\ (~has_config_file => files = <<>>)
          /\ cli = [name |-> name, has_config_file |-> has_config_file, files |-> files,
                    pc |-> "called", events |-> <<>>]

\* the call runs to its end
RunTrainerMethod ==
    /\ cli # Idle
    /\ cli.pc = "called"
    /\ \E r \in {run_trainer_method(cli.name, cli.has_config_file, cli.files)} :
          cli' = [cli EXCEPT !.pc = r.pc, !.events = r.events]
    /\ UNCHANGED stepVars /\ Frame({"cli"})

NextCli == RunTrainerMethod

SpecCli == InitCli /\ [][NextCli]_vars

---------------------------------------------------------------------------
(* lightningbringer: cli.run *)

\* the subcommands of the command line
Subcommands == {"train", "validate", "predict", "test", "tune"}

\* the mode each subcommand hands to run
ModeOf(cmd) == IF cmd = "train" THEN "fit" ELSE cmd

\* the datasets and samplers of conf.system
DataFields == {"train_dataset", "train_sampler", "val_dataset", "val_sampler",
               "test_dataset", "test_sampler"}

\* what conf.system.optimizers / conf.system.schedulers can be
ConfKinds == {"DictConfig", "ListConfig", "None"}

\* the configuration init_config returns: the fields set (not None) of
\* conf.system, and the kinds of its optimizers and schedulers
Confs == [set : SUBSET DataFields, optimizers : ConfKinds, schedulers : ConfKinds]

\* (variant: no filter, every dataset and sampler is handed on in every mode)
DatasetFilter_All(m) == DataFields

\* the fields of conf.system the mode uses; "exit" for a mode without filter
DatasetFilter(m) ==
    IF m \in {"fit", "tune"}
    THEN {"train_dataset", "train_sampler", "val_dataset", "val_sampler"}
    ELSE IF m = "validate" THEN {"val_dataset", "val_sampler"}
    ELSE IF m = "test" THEN {"test_dataset", "test_sampler"}
    ELSE {"exit"}

\* one thing run does: `given` names the arguments that are not None
RunEvent(ev, given) == [ev |-> ev, given |-> given]

\* (variant: the optimizer is instantiated before the System)
Instantiations_OptimizerFirst(conf, passed) ==
    [raised |-> FALSE,
     events |-> << RunEvent("Trainer", {}),
                   RunEvent("optimizers", {"system.model.parameters"}),
                   RunEvent("System", passed),
                   RunEvent("schedulers", {"system.optimizers"}) >>]

\* lines 31-60: the Trainer, the System, then the optimizer and the scheduler
Instantiations(conf, passed) ==
    LET built == << RunEvent("Trainer", {}), RunEvent("System", passed) >>
    IN  IF conf.optimizers # "DictConfig"
        THEN [raised |-> TRUE, events |-> Append(built, RunEvent("AssertionError", {"One optimizer!"}))]
        ELSE IF conf.schedulers \notin {"DictConfig", "None"}
        THEN [raised |-> TRUE, events |-> Append(built, RunEvent("AssertionError", {"One scheduler!"}))]
        ELSE [raised |-> FALSE,
              events |-> built \o << RunEvent("optimizers", {"system.model.parameters"}),
                                     RunEvent("schedulers", {"system.optimizers"}) >>]

\* run(mode, omegaconf_args), conf being what init_config makes of the arguments
LBrun(m, conf) ==
    LET start == << RunEvent("init_config", {}) >>
    IN  IF DatasetFilter(m) = {"exit"}
        THEN [pc |-> "exited",
              events |-> start \o << RunEvent("error", {}), RunEvent("exit", {}) >>]
        ELSE LET made == Instantiations(conf, conf.set \cap DatasetFilter(m))
             IN  IF made.raised
                 THEN [pc |-> "raised", events |-> start \o made.events]
                 ELSE [pc |-> "returned",
                       events |-> start \o made.events
                                    \o << RunEvent("trainer." \o m, {"system"}) >>]

InitRun ==
    /\ NoSteps
    /\ IdleBut("run")
    /\ \E cmd \in Subcommands, conf \in Confs :
          run = [mode |-> ModeOf(cmd), conf |-> conf, pc |-> "called", events |-> <<>>]

\* the subcommand runs to its end
Run ==
    /\ run # Idle
    /\ run.pc = "called"
    /\ \E r \in {LBrun(run.mode, run.conf)} :
          run' = [run EXCEPT !.pc = r.pc, !.events = r.events]
    /\ UNCHANGED stepVars /\ Frame({"run"})

NextRun == Run

SpecRun == InitRun /\ [][NextRun]_vars

---------------------------------------------------------------------------
(* lighter: utils.schema.ArgsConfigSchema *)

\* sub-sections of one args configuration that are not empty
MaxSections == 2

\* the fields of ArgsConfigSchema, in the order of their declaration
ArgsFields == << "fit", "validate", "predict", "lr_find", "scale_batch_size" >>

\* the sub-sections an args configuration may be written with: the schema's
\* fields and the other subcommands of the command line
ArgsSections == {ArgsFields[i] : i \in DOMAIN ArgsFields} \cup TrainerMethods

prohibited_keys == {"model", "train_loaders", "validation_loaders", "dataloaders", "datamodule"}

\* the keys of one sub-section
ArgDicts == { {}, {"max_epochs"}, {"model"}, {"ckpt_path", "train_loaders"},
              {"dataloaders", "datamodule"}, {"validation_loaders"} }

ArgsConfigs ==
    {a \in [ArgsSections -> ArgDicts] :
        Cardinality({sec \in ArgsSections : a[sec] # {}}) <= MaxSections}

\* the value of a schema field: an undeclared key of the input is ignored
FieldValue(a, field) == a[field]

\* check_prohibited_args, from the i-th field on
RECURSIVE check_prohibited_args(_, _)
check_prohibited_args(a, i) ==
    IF i > Len(ArgsFields) THEN [outcome |-> "accepted", field |-> "None", found_keys |-> {}]
    ELSE LET found_keys == prohibited_keys \cap FieldValue(a, ArgsFields[i])
         IN  IF found_keys # {}
             THEN [outcome |-> "ValueError", field |-> ArgsFields[i], found_keys |-> found_keys]
             ELSE check_prohibited_args(a, i + 1)

InitArgs ==
    /\ NoSteps
    /\ IdleBut("args")
    /\ \E a \in ArgsConfigs :
          args = [config |-> a, pc |-> "given", outcome |-> "None", field |-> "None",
                  found_keys |-> {}]

\* ArgsConfigSchema(**config)
ValidateArgs ==
    /\ args # Idle
    /\ args.pc = "given"
    /\ \E r \in {check_prohibited_args(args.config, 1)} :
          args' = [args EXCEPT !.pc = "validated", !.outcome = r.outcome,
                               !.field = r.field, !.found_keys = r.found_keys]
    /\ UNCHANGED stepVars /\ Frame({"args"})

NextArgs == ValidateArgs

SpecArgs == InitArgs /\ [][NextArgs]_vars

---------------------------------------------------------------------------
(* lighter: System.forward and its keyword arguments *)

\* the trainer's counters, and the calls an inferer makes for one input
MaxEpoch == 2
MaxGlobalStep == 2
MaxWindows == 2

\* the parameters a model's forward can declare besides its input
Signatures == SUBSET {"epoch", "step", "mask"}

\* hasarg(fn, arg_name): fn declares a parameter of that name
hasarg(signature, arg_name) == arg_name \in signature

\* (variant: epoch and step are passed whatever the model declares)
ForwardKwargs_Always(signature, current_epoch, global_step) ==
    [k \in {"epoch", "step"} |-> IF k = "epoch" THEN current_epoch ELSE global_step]

\* the kwargs System.forward hands to the model
ForwardKwargs(signature, current_epoch, global_step) ==
    [k \in {a \in {"epoch", "step"} : hasarg(signature, a)} |->
        IF k = "epoch" THEN current_epoch ELSE global_step]

\* one call of the model by System.forward, with the counters as they were
ModelCall(f) ==
    [kwargs |-> ForwardKwargs(f.signature, f.current_epoch, f.global_step),
     current_epoch |-> f.current_epoch, global_step |-> f.global_step]

\* the model calls of the prediction of one step: an inferer calls the
\* System once per window, otherwise the System is called once
Prediction(f, m, windows) ==
    IF UsesInferer([inferer |-> f.inferer], m)
    THEN [via |-> "inferer", calls |-> [i \in 1..windows |-> ModelCall(f)]]
    ELSE [via |-> "system", calls |-> << ModelCall(f) >>]

InitFwd ==
    /\ NoSteps
    /\ IdleBut("fwd")
    /\ \E signature \in Signatures, infr \in BOOLEAN :
          fwd = [signature |-> signature, inferer |-> infr, current_epoch |-> 0,
                 global_step |-> 0, mode |-> "None", via |-> "None", calls |-> <<>>]

\* the prediction of a step in mode m
Predict ==
    /\ fwd # Idle
    /\ \E m \in Mode, windows \in 1..MaxWindows :
         \E r \in {Prediction(fwd, m, windows)} :
            fwd' = [fwd EXCEPT !.mode = m, !.via = r.via, !.calls = r.calls]
    /\ UNCHANGED stepVars /\ Frame({"fwd"})

\* the trainer counts an optimizer step
AdvanceGlobalStep ==
    /\ fwd # Idle
    /\ fwd.global_step < MaxGlobalStep
    /\ fwd' = [fwd EXCEPT !.global_step = @ + 1]
    /\ UNCHANGED stepVars /\ Frame({"fwd"})

\* the trainer starts the next epoch
AdvanceEpoch ==
    /\ fwd # Idle
    /\ fwd.current_epoch < MaxEpoch
    /\ fwd' = [fwd EXCEPT !.current_epoch = @ + 1]
    /\ UNCHANGED stepVars /\ Frame({"fwd"})

NextFwd == Predict \/ AdvanceGlobalStep \/ AdvanceEpoch

SpecFwd == InitFwd /\ [][NextFwd]_vars

---------------------------------------------------------------------------
(* lighter: the metric objects of the modes *)

\* metric objects the caller has made, and updates one of them takes
MaxInstances == 2
MaxUpdates == 2

Instances == 1..MaxInstances

\* the `metrics` argument: for each mode the metric objects given for it, as
\* one Metric or as a list or dict of them; none when the mode is no key
MetricsArgs == [Mode -> SUBSET Instances]

\* self.metrics: a list or dict is wrapped in a MetricCollection, which keeps
\* the objects it is given; a single Metric is registered as it is
Registered(metrics) == [m \in DOMAIN metrics |-> metrics[m]]

\* the metric objects a step in mode m updates
Updated(registered, m) ==
    IF PredictStops(m) THEN {}
    ELSE IF HasMetrics([metrics |-> [k \in DOMAIN registered |->
                                        IF registered[k] = {} THEN "none" ELSE "collection"]], m)
    THEN registered[m]
    ELSE {}

InitMet ==
    /\ NoSteps
    /\ IdleBut("met")
    /\ \E metrics \in MetricsArgs :
          met = [metrics |-> Registered(metrics), updates |-> [i \in Instances |-> 0],
                 mode |-> "None", touched |-> {}]

\* a step in mode m gets as far as its metrics
MetricsStep ==
    /\ met # Idle
    /\ \E m \in Mode :
         \E touched \in {Updated(met.metrics, m)} :
            /\ \A i \in touched : met.updates[i] < MaxUpdates
            /\ met' = [met EXCEPT !.mode = m, !.touched = touched,
                                  !.updates = [i \in Instances |->
                                                 IF i \in touched THEN @[i] + 1 ELSE @[i]]]
    /\ UNCHANGED stepVars /\ Frame({"met"})

NextMet == MetricsStep

SpecMet == InitMet /\ [][NextMet]_vars

---------------------------------------------------------------------------
(* lighter: the handlers System.__init__ binds *)

\* dataloader objects the caller has made
MaxLoaders == 2

\* keys a dataloaders mapping may have: the modes and one that is no mode
DataloaderKeys == Mode \cup {"other"}

\* the `dataloaders` argument: None or a dict from keys to dataloaders
DataloaderArgs ==
    {None} \cup {Dict(d) : d \in UNION {[K -> 1..MaxLoaders] : K \in SUBSET DataloaderKeys}}

\* the attribute holding the dataloader handler of mode m
DataloaderAttr(m) == m \o "_dataloader"

\* the attribute holding the step handler of mode m
StepAttr(m) ==
    IF m = TRAIN THEN "training_step"
    ELSE IF m = VAL THEN "validation_step"
    ELSE m \o "_step"

\* `dataloaders = dataloaders or {}`
OrEmpty(dataloaders) == IF dataloaders = None THEN << >> ELSE dataloaders.d

\* (variant: every step handler is bound with the train mode)
BoundStep_AlwaysTrain(m) == [handler |-> "_step", mode |-> TRAIN]

\* `partial(self._step, mode=Mode.X)`
BoundStep(m) == [handler |-> "_step", mode |-> m]

\* `lambda: dataloaders[Mode.X]`
BoundDataloader(d, m) == [handler |-> "lambda", returns |-> d[m]]

\* the attributes the constructor sets for the modes that are keys
Bind(dataloaders) ==
    LET d == OrEmpty(dataloaders)
        bound == {m \in Mode : m \in DOMAIN d}
    IN  [a \in {DataloaderAttr(m) : m \in bound} \cup {StepAttr(m) : m \in bound} |->
            LET m == CHOOSE k \in bound : a \in {DataloaderAttr(k), StepAttr(k)}
            IN  IF a = DataloaderAttr(m) THEN BoundDataloader(d, m) ELSE BoundStep(m)]

InitSys ==
    /\ NoSteps
    /\ IdleBut("sys")
    /\ \E dataloaders \in DataloaderArgs :
          sys = [dataloaders |-> dataloaders, pc |-> "args", attrs |-> << >>,
                 called |-> "None", dispatched |-> "None", returned |-> 0]

\* System(model, dataloaders, ...)
Construct ==
    /\ sys # Idle
    /\ sys.pc = "args"
    /\ sys' = [sys EXCEPT !.pc = "constructed", !.attrs = Bind(sys.dataloaders)]
    /\ UNCHANGED stepVars /\ Frame({"sys"})

\* the trainer calls a bound dataloader handler
CallDataloader ==
    /\ sys # Idle
    /\ sys.pc = "constructed"
    /\ \E m \in Mode :
          /\ DataloaderAttr(m) \in DOMAIN sys.attrs
          /\ sys' = [sys EXCEPT !.called = DataloaderAttr(m), !.dispatched = "None",
                                !.returned = sys.attrs[DataloaderAttr(m)].returns]
    /\ UNCHANGED stepVars /\ Frame({"sys"})

\* the trainer calls a bound step handler
CallStep ==
    /\ sys # Idle
    /\ sys.pc = "constructed"
    /\ \E m \in Mode :
          /\ StepAttr(m) \in DOMAIN sys.attrs
          /\ sys' = [sys EXCEPT !.called = StepAttr(m), !.returned = 0,
                                !.dispatched = sys.attrs[StepAttr(m)].mode]
    /\ UNCHANGED stepVars /\ Frame({"sys"})

NextSys == Construct \/ CallDataloader \/ CallStep

SpecSys == InitSys /\ [][NextSys]_vars

---------------------------------------------------------------------------
(* lightningbringer: System.setup and the methods it defines *)

\* the stages the trainer passes to setup
Stages == {"fit", "validate", "test"}

\* the modes lightningbringer has datasets for
LBModes == {"train", "val", "test"}

dataset_required_by_stage(stage) ==
    IF stage = "fit" THEN "train" ELSE IF stage = "validate" THEN "val" ELSE "test"

\* `lambda: None`
Placeholder == [kind |-> "lambda", fn |-> "None", mode |-> "None"]

\* `partial(self.fn, mode=m)`
Partial(fn, m) == [kind |-> "partial", fn |-> fn, mode |-> m]

\* the attributes __init__ sets so that LightningModule does not complain
InitAttrs ==
    [a \in {DataloaderAttr("train"), StepAttr("train")} |-> Placeholder]

\* the modes whose methods setup(stage) defines
DefinedBy(stage, datasets) ==
    (IF stage = "fit" THEN {"train"} ELSE {})
    \cup (IF stage = "validate" \/ (stage = "fit" /\ "val" \in datasets) THEN {"val"} ELSE {})
    \cup (IF stage = "test" THEN {"test"} ELSE {})

\* setup(stage) on a system with these datasets and attributes
setup(datasets, attrs, stage) ==
    IF dataset_required_by_stage(stage) \notin datasets
    THEN [exited |-> TRUE, attrs |-> attrs]
    ELSE LET defined == DefinedBy(stage, datasets)
             names == {DataloaderAttr(m) : m \in defined} \cup {StepAttr(m) : m \in defined}
         IN  [exited |-> FALSE,
              attrs |-> [a \in DOMAIN attrs \cup names |->
                           IF a \in names
                           THEN LET m == CHOOSE k \in defined : a \in {DataloaderAttr(k), StepAttr(k)}
                                IN  IF a = DataloaderAttr(m) THEN Partial("_dataloader", m)
                                    ELSE Partial("_step", m)
                           ELSE attrs[a]]]

\* what calling the dataloader attribute of mode m returns
LB_dataloader(s, m) ==
    LET a == s.attrs[DataloaderAttr(m)]
    IN  IF a.kind = "lambda" THEN [loader |-> FALSE, mode |-> "None", shuffle |-> FALSE]
        ELSE [loader |-> TRUE, mode |-> a.mode,
              shuffle |-> (a.mode = "train" /\ a.mode \notin s.samplers)]

InitLB ==
    /\ NoSteps
    /\ IdleBut("lb")
    /\ \E datasets \in SUBSET LBModes, samplers \in SUBSET LBModes :
          lb = [datasets |-> datasets, samplers |-> samplers, attrs |-> InitAttrs,
                before |-> InitAttrs, stage |-> "None", exited |-> FALSE,
                loaded |-> [loader |-> FALSE, mode |-> "None", shuffle |-> FALSE]]

\* the trainer calls setup(stage)
Setup ==
    /\ lb # Idle
    /\ ~lb.exited
    /\ \E stage \in Stages :
         \E r \in {setup(lb.datasets, lb.attrs, stage)} :
            lb' = [lb EXCEPT !.stage = stage, !.before = lb.attrs, !.attrs = r.attrs,
                             !.exited = r.exited]
    /\ UNCHANGED stepVars /\ Frame({"lb"})

\* the trainer asks the system for the dataloader of a mode
LBCallDataloader ==
    /\ lb # Idle
    /\ ~lb.exited
    /\ \E m \in LBModes :
          /\ DataloaderAttr(m) \in DOMAIN lb.attrs
          /\ lb' = [lb EXCEPT !.loaded = LB_dataloader(lb, m)]
    /\ UNCHANGED stepVars /\ Frame({"lb"})

NextLB == Setup \/ LBCallDataloader

SpecLB == InitLB /\ [][NextLB]_vars

---------------------------------------------------------------------------
(* Properties of the step *)

\* the last step was a step of lighter's System
LighterStep == last.sys = "lighter"

\* the names of the collaborators the last step called
Called == {last.calls[i] : i \in DOMAIN last.calls}

\* the keys of the records the last step logged
LoggedNames == {r.name : r \in last.logs}

C2_MissingTotalFailsBeforeLogging ==
    (LighterStep /\ last.mode \in {TRAIN, VAL}
        /\ last.critOut.kind = "dict" /\ "total" \notin DOMAIN last.critOut.d)
    => /\ last.outcome = "raise"
       /\ last.error = [type |-> "ValueError", msg |-> MissingTotalMsg]
       /\ last.logs = {}
       /\ "_log_stats" \notin Called

\* a train step with a logger and a metric collection configured got {aux: ...}
\* from its criterion
C2_Witness ==
    /\ LighterStep /\ last.mode = TRAIN /\ last.batch_idx = 0
    /\ cfg.logger /\ cfg.metrics[TRAIN] = "collection"
    /\ last.critOut.kind = "dict" /\ DOMAIN last.critOut.d = {"aux"}
    /\ last.outcome = "raise"

\* C3: the "loss" a completed train or val step returns is the criterion's
\* "total" entry for a dict and the criterion's result itself for a scalar.
C3_ReturnedLossIsTotal ==
    (LighterStep /\ last.mode \in {TRAIN, VAL} /\ last.outcome = "return")
    => /\ last.critOut.kind \in {"tensor", "dict"}
       /\ last.critOut.kind = "dict" => last.result.loss = Tensor(last.critOut.d["total"])
       /\ last.critOut.kind = "tensor" => last.result.loss = last.critOut

\* a val step returned after its criterion gave {total, aux} with aux # total
C3_Witness ==
    /\ LighterStep /\ last.mode = VAL /\ last.outcome = "return"
    /\ last.critOut.kind = "dict" /\ DOMAIN last.critOut.d = {"total", "aux"}
    /\ last.critOut.d["aux"] # last.critOut.d["total"]

\* C4: a batch without input is refused with the error that names the schema; a
\* batch with the keys {input}, {input, target}, {input, id} or {input, target, id}
\* is accepted, and the step goes on with, and returns, the id, input and target
\* it was given, an absent id or target being None.
C4_BatchValidation ==
    LighterStep =>
      /\ "input" \notin DOMAIN last.batch =>
            /\ last.outcome = "raise"
            /\ last.error.type \in {"TypeError", "ValueError"}
            /\ last.error.msg = BatchSchemaMsg
      /\ DOMAIN last.batch \in {{"input"}, {"input", "target"}, {"input", "id"},
                                {"input", "target", "id"}} =>
            /\ last.error.msg # BatchSchemaMsg
            /\ Len(last.calls) >= 2
            /\ last.outcome = "return" =>
                  /\ last.result.id =
                        (IF "id" \in DOMAIN last.batch THEN last.batch.id ELSE "None")
                  /\ last.result.pred.input = last.batch.input
                  /\ last.mode # PREDICT =>
                        /\ last.result.input = last.batch.input
                        /\ last.result.target =
                              (IF "target" \in DOMAIN last.batch
                               THEN last.batch.target ELSE "None")

\* a train step on a batch {input, id} has returned
C4_Witness ==
    /\ LighterStep /\ last.mode = TRAIN /\ last.outcome = "return"
    /\ DOMAIN last.batch = {"input", "id"}
    /\ last.result.target = "None" /\ last.result.id = last.batch.id

\* C5: a batch with a key other than id, input and target makes the step, in any
\* mode, raise the error that names the allowed schema, before the model, the
\* inferer, the criterion, a metric or the logger is called.
C5_UnknownKeyFailsFast ==
    (LighterStep /\ ~(DOMAIN last.batch \subseteq {"id", "input", "target"}))
    => /\ last.outcome = "raise"
       /\ last.error.type \in {"TypeError", "ValueError"}
       /\ last.error.msg = BatchSchemaMsg
       /\ last.calls = <<"Batch">>
       /\ last.logs = {}

\* a val step of a fully configured System got a batch with input, target and
\* one more key
C5_Witness ==
    /\ LighterStep /\ last.mode = VAL /\ last.outcome = "raise"
    /\ DOMAIN last.batch = {"input", "target", "extra"}
    /\ cfg.criterion /\ cfg.logger /\ cfg.inferer /\ cfg.metrics[VAL] = "collection"

\* C6: a test step never calls the criterion and its loss is None (the "loss"
\* of the result in lighter, the returned value in lightningbringer); a train
\* or val step that gets past batch validation calls the criterion.
C6_TestHasNoLoss ==
    /\ (LighterStep /\ last.mode = TEST) =>
          /\ "criterion" \notin Called
          /\ last.outcome = "return" => last.result.loss = None
    /\ (last.sys = "lightningbringer" /\ last.mode = TEST) =>
          /\ "criterion" \notin Called
          /\ last.outcome = "return" /\ last.result = None
    /\ (LighterStep /\ last.mode \in {TRAIN, VAL} /\ last.error.msg # BatchSchemaMsg) =>
          "criterion" \in Called
    /\ (last.sys = "lightningbringer" /\ last.mode \in {TRAIN, VAL}) =>
          "criterion" \in Called

\* a test step of a lighter System with a criterion has returned
C6_Witness ==
    /\ LighterStep /\ last.mode = TEST /\ last.outcome = "return"
    /\ cfg.criterion /\ "target" \in DOMAIN last.batch

\* C7 as stated: a train, val or test step on a batch with input and no target
\* does not complete, and the same batch is accepted by a predict step.
C7_Original ==
    (LighterStep /\ "input" \in DOMAIN last.batch /\ "target" \notin DOMAIN last.batch
        /\ DOMAIN last.batch \subseteq {"input", "id"})
    => IF last.mode = PREDICT THEN last.outcome = "return" ELSE last.outcome # "return"

\* C7, amended: a batch with input and no target passes batch validation in
\* every mode: the step goes on to the prediction with target None, a predict
\* step returns, and a train, val or test step that returns has target None in
\* its result.
C7_TargetOptionalInEveryMode ==
    (LighterStep /\ "input" \in DOMAIN last.batch /\ "target" \notin DOMAIN last.batch
        /\ DOMAIN last.batch \subseteq {"input", "id"})
    => /\ last.error.msg # BatchSchemaMsg
       /\ Called \cap {"forward", "inferer"} # {}
       /\ last.mode = PREDICT => last.outcome = "return"
       /\ (last.mode # PREDICT /\ last.outcome = "return") => last.result.target = "None"
       /\ (last.mode = TEST /\ (cfg.metrics[TEST] = "none" \/ ~cfg.logger)) =>
             last.outcome = "return"

\* a test step on the batch {input} has returned
C7_Witness ==
    /\ LighterStep /\ last.mode = TEST /\ last.outcome = "return"
    /\ DOMAIN last.batch = {"input"}

\* C8: the prediction comes from the inferer exactly when an inferer is
\* configured and the mode is val, test or predict; otherwise, train mode with
\* an inferer included, the inferer is not called and the model is called
\* through forward.
C8_InfererOnlyOutsideTrain ==
    (LighterStep /\ last.error.msg # BatchSchemaMsg)
    => LET viaInferer == cfg.inferer /\ last.mode \in {VAL, TEST, PREDICT}
       IN  /\ ("inferer" \in Called) <=> viaInferer
           /\ ("forward" \in Called) <=> ~viaInferer
           /\ last.outcome = "return" =>
                 /\ last.result.pred.by = (IF viaInferer THEN "inferer" ELSE "model")
                 /\ last.result.pred.input = last.batch.input

\* a train step of a System with an inferer has returned
C8_Witness ==
    /\ LighterStep /\ last.mode = TRAIN /\ last.outcome = "return"
    /\ cfg.inferer /\ "forward" \in Called

\* the keys under which a step in mode m logs the loss `loss`
LossKeys(loss, m) ==
    IF loss.kind = "tensor" THEN {m \o "/loss/step", m \o "/loss/epoch"}
    ELSE IF loss.kind = "dict"
    THEN {m \o "/loss/" \o n \o "/step" : n \in DOMAIN loss.d}
            \cup {m \o "/loss/" \o n \o "/epoch" : n \in DOMAIN loss.d}
    ELSE {}

\* the keys under which a step in mode m logs the metrics named ns
MetricKeys(ns, m) ==
    {m \o "/metrics/" \o n \o "/step" : n \in ns}
        \cup {m \o "/metrics/" \o n \o "/epoch" : n \in ns}

\* the keys of the optimizer's stats
OptimizerKeys(m) == {m \o "/" \o n : n \in DOMAIN get_optimizer_stats}

EndsWith(s, t) == Len(s) >= Len(t) /\ SubSeq(s, Len(s) - Len(t) + 1, Len(s)) = t

\* C11: every record a lighter step logs is either a step record (key ending in
\* /step), logged on step and not synchronized, or an epoch-level record (key
\* ending in /epoch, or an optimizer stat), logged on epoch and synchronized;
\* none is logged both on step and on epoch.
C11_SyncIffEpochLevel ==
    LighterStep =>
      \A r \in last.logs :
        LET stepLevel == EndsWith(r.name, "/step")
            epochLevel == EndsWith(r.name, "/epoch") \/ r.name \in OptimizerKeys(last.mode)
        IN  /\ stepLevel # epochLevel
            /\ stepLevel => (r.on_step /\ ~r.on_epoch /\ ~r.sync_dist)
            /\ epochLevel => (r.on_epoch /\ ~r.on_step /\ r.sync_dist)

\* the first train step of an epoch has logged a loss, metrics and the
\* optimizer's stats
C11_Witness ==
    /\ LighterStep /\ last.mode = TRAIN /\ last.batch_idx = 0 /\ last.outcome = "return"
    /\ \E r \in last.logs : r.name = "train/metrics/acc/step"
    /\ \E r \in last.logs : r.name = "train/loss/epoch"
    /\ \E r \in last.logs : r.name = "train/optimizer/SGD/lr"

\* C12: without a logger a step logs nothing and _log_stats raises nothing, for
\* every loss, metrics, mode and batch index; the step ends as it does with a
\* logger: it returns the same result whenever the step with a logger returns,
\* and raises the same error whenever it raises itself.
C12_NoLoggerNoRecords ==
    (LighterStep /\ ~cfg.logger) =>
      /\ last.logs = {}
      /\ "_log_stats" \in Called => last.outcome = "return"
      /\ LET withLogger == _step([cfg EXCEPT !.logger = TRUE], last.batch,
                                 last.batch_idx, last.mode, last.critOut)
         IN  /\ withLogger.outcome = "return" =>
                   (last.outcome = "return" /\ last.result = withLogger.result)
             /\ last.outcome = "raise" =>
                   (withLogger.outcome = "raise" /\ withLogger.error = last.error)

\* the first train step of an epoch, with a dict loss and a metric collection
\* and no logger, has returned
C12_Witness ==
    /\ LighterStep /\ ~cfg.logger
    /\ last.mode = TRAIN /\ last.batch_idx = 0 /\ last.outcome = "return"
    /\ last.critOut.kind = "dict" /\ last.result.metrics.kind = "dict"

\* C13: with more than one parameter group, reading and assigning
\* learning_rate both raise the error that names the multiple groups, and the
\* assignment leaves every group's lr as it was; with one group, the assignment
\* sets that group's lr and a read after it returns the assigned value.
C13_LearningRate ==
    opt.op \in {"get", "set"} =>
      /\ Len(opt.before) > 1 =>
            /\ opt.outcome = "raise" /\ opt.error = MultiGroupMsg
            /\ opt.param_groups = opt.before
      /\ Len(opt.before) = 1 =>
            /\ opt.outcome = "return"
            /\ opt.op = "set" => opt.param_groups = <<[lr |-> opt.value]>>
            /\ opt.op = "get" => opt.param_groups = opt.before
            /\ (opt.op = "get" /\ opt.assigned # 0) => opt.value = opt.assigned

\* an assignment to learning_rate of an optimizer with two groups has raised
C13_Witness ==
    /\ opt.op = "set" /\ Len(opt.before) = 2 /\ opt.outcome = "raise"
    /\ opt.value # opt.before[1].lr

\* a read after an assignment, one group
C13_WitnessRead ==
    /\ opt.op = "get" /\ Len(opt.before) = 1 /\ opt.assigned # 0

\* the config files of the call that declare `project`
Declaring == {i \in DOMAIN cli.files : cli.files[i]}

\* the places of the events `ev` in what the call did
EventsAt(ev) == {k \in DOMAIN cli.events : cli.events[k].ev = ev}

\* C14 as stated: with two or more declaring files the call exits with one
\* logged error, the trainer method not run and nothing executed before the
\* exit; with at most one, the declared project is imported once, before the
\* trainer method is run.
C14_Original ==
    cli.pc # "called" =>
      /\ Cardinality(Declaring) >= 2 =>
            /\ cli.pc = "exited"
            /\ Cardinality(EventsAt("error")) = 1
            /\ EventsAt("run") = {}
            /\ EventsAt("import") = {}
      /\ Cardinality(Declaring) <= 1 =>
            /\ cli.pc = "returned"
            /\ Cardinality(EventsAt("run")) = 1
            /\ Cardinality(EventsAt("import")) = Cardinality(Declaring)
            /\ \A k \in EventsAt("import") :
                  cli.events[k].file \in Declaring /\ \A j \in EventsAt("run") : k < j

\* C14, amended: with two or more declaring files the call exits with one logged
\* error at the second declaring file and the trainer method is never run; by
\* then the first declared project, and nothing else, has been imported. With
\* at most one declaring file the declared project is imported once, before the
\* trainer method is run.
C14_DuplicateProjectExits ==
    cli.pc # "called" =>
      /\ Cardinality(Declaring) >= 2 =>
            /\ cli.pc = "exited"
            /\ Cardinality(EventsAt("error")) = 1
            /\ EventsAt("run") = {}
            /\ Cardinality(EventsAt("import")) = 1
            /\ \A k \in EventsAt("import") :
                  /\ cli.events[k].file \in Declaring
                  /\ \A i \in Declaring : cli.events[k].file <= i
                  /\ \A j \in EventsAt("error") : k < j
            /\ \A j \in EventsAt("error") :
                  Cardinality({i \in Declaring : i < cli.events[j].file}) = 1
            /\ cli.events[Len(cli.events)].ev = "exit"
      /\ Cardinality(Declaring) <= 1 =>
            /\ cli.pc = "returned"
            /\ EventsAt("error") = {} /\ EventsAt("exit") = {}
            /\ Cardinality(EventsAt("run")) = 1
            /\ Cardinality(EventsAt("import")) = Cardinality(Declaring)
            /\ \A k \in EventsAt("import") :
                  cli.events[k].file \in Declaring /\ \A j \in EventsAt("run") : k < j

\* a call with three config files, all declaring `project`, has exited
C14_Witness ==
    /\ cli.pc = "exited" /\ Cardinality(Declaring) = 3

\* the places of the events `ev` in what run did
RunAt(ev) == {k \in DOMAIN run.events : run.events[k].ev = ev}

\* the modes run has a dataset filter for
SupportedModes == {"fit", "tune", "validate", "test"}

\* C15: the System is instantiated with no optimizers and no schedulers, the
\* optimizer after it from the model's parameters, the scheduler after the
\* optimizer from the optimizer, and the trainer method only after all three;
\* in a supported mode with one optimizer and at most one scheduler configured
\* all four happen, once each.
C15_BuildOrder ==
    run.pc # "called" =>
      /\ \A k \in RunAt("System") :
            run.events[k].given \cap {"optimizers", "schedulers"} = {}
      /\ \A k \in RunAt("optimizers") :
            /\ run.events[k].given = {"system.model.parameters"}
            /\ \E j \in RunAt("System") : j < k
      /\ \A k \in RunAt("schedulers") :
            /\ run.events[k].given = {"system.optimizers"}
            /\ \E j \in RunAt("optimizers") : j < k
      /\ \A k \in RunAt("trainer." \o run.mode) :
            /\ run.events[k].given = {"system"}
            /\ k = Len(run.events)
            /\ \E j \in RunAt("schedulers") : j < k
      /\ ( /\ run.mode \in SupportedModes
           /\ run.conf.optimizers = "DictConfig"
           /\ run.conf.schedulers \in {"DictConfig", "None"} )
         => /\ run.pc = "returned"
            /\ \A ev \in {"System", "optimizers", "schedulers", "trainer." \o run.mode} :
                  Cardinality(RunAt(ev)) = 1

\* `tune` has run with an optimizer and a scheduler configured
C15_Witness ==
    /\ run.pc = "returned" /\ run.mode = "tune"
    /\ run.conf.schedulers = "DictConfig"
    /\ RunAt("trainer.tune") # {}

\* the sub-sections of the subcommands that hold a prohibited key
Offending == {sec \in TrainerMethods : args.config[sec] \cap prohibited_keys # {}}

\* C16: an args configuration with a prohibited key in the sub-section of any
\* subcommand (fit, validate, predict, test, tune) is rejected with an error
\* naming such a sub-section and the prohibited keys found in it; one with no
\* prohibited key anywhere is accepted.
C16_ProhibitedArgsRejected ==
    args.pc = "validated" =>
      /\ Offending # {} =>
            /\ args.outcome = "ValueError"
            /\ args.found_keys = args.config[args.field] \cap prohibited_keys
            /\ args.found_keys # {}
      /\ (\A sec \in ArgsSections : args.config[sec] \cap prohibited_keys = {})
            => args.outcome = "accepted"

\* C17: every call of the model made for a prediction, directly or through an
\* inferer, carries `epoch` (the current epoch) iff the model's forward
\* declares it and `step` (the global step) iff it declares it, and nothing
\* else.
C17_ForwardKwargs ==
    fwd.via # "None" =>
      /\ Len(fwd.calls) >= 1
      /\ \A i \in DOMAIN fwd.calls :
            LET call == fwd.calls[i]
            IN  /\ ("epoch" \in DOMAIN call.kwargs) <=> ("epoch" \in fwd.signature)
                /\ ("step" \in DOMAIN call.kwargs) <=> ("step" \in fwd.signature)
                /\ DOMAIN call.kwargs \subseteq {"epoch", "step"}
                /\ "epoch" \in DOMAIN call.kwargs => call.kwargs["epoch"] = call.current_epoch
                /\ "step" \in DOMAIN call.kwargs => call.kwargs["step"] = call.global_step

\* an inferer has called, twice, a System whose model declares step but not
\* epoch, in the second epoch after one optimizer step
C17_Witness ==
    /\ fwd.via = "inferer" /\ Len(fwd.calls) = 2
    /\ fwd.signature = {"step", "mask"}
    /\ fwd.calls[2].kwargs = [k \in {"step"} |-> 1]
    /\ fwd.calls[2].current_epoch = 1

\* C18: a step in mode m updates only metric objects registered for m and
\* leaves the accumulation state of the metric objects of every other mode as
\* it was; a predict step updates none.
C18_MetricsNotShared ==
    met.mode # "None" =>
      /\ met.touched \subseteq met.metrics[met.mode]
      /\ \A other \in Mode \ {met.mode} : met.metrics[other] \cap met.touched = {}
      /\ met.mode = PREDICT => met.touched = {}

\* the keys of the dataloaders the System was made with
GivenKeys == IF sys.dataloaders = None THEN {} ELSE DOMAIN sys.dataloaders.d

\* C19: after construction, for each mode the dataloader handler and the step
\* handler are both bound if the mode is a key of dataloaders and neither is
\* otherwise; a bound step handler dispatches _step with its own mode and a
\* bound dataloader handler returns the dataloader given for its mode.
C19_HandlersBound ==
    sys.pc = "constructed" =>
      /\ \A m \in Mode :
            /\ m \in GivenKeys =>
                  /\ {DataloaderAttr(m), StepAttr(m)} \subseteq DOMAIN sys.attrs
                  /\ sys.attrs[StepAttr(m)] = [handler |-> "_step", mode |-> m]
                  /\ sys.attrs[DataloaderAttr(m)].returns = sys.dataloaders.d[m]
            /\ m \notin GivenKeys =>
                  {DataloaderAttr(m), StepAttr(m)} \cap DOMAIN sys.attrs = {}
      /\ \A m \in Mode :
            /\ sys.called = StepAttr(m) => sys.dispatched = m
            /\ sys.called = DataloaderAttr(m) =>
                  m \in GivenKeys /\ sys.returned = sys.dataloaders.d[m]

\* a System made with dataloaders for val and predict only (and a key that is
\* no mode) has had its validation step handler called
C19_Witness ==
    /\ sys.pc = "constructed"
    /\ GivenKeys = {VAL, PREDICT, "other"}
    /\ sys.called = "validation_step" /\ sys.dispatched = VAL

\* the modes whose dataloader and step methods the system has, the
\* placeholders of the constructor not counted
HasMethods ==
    {m \in LBModes : \E a \in {DataloaderAttr(m), StepAttr(m)} :
                        a \in DOMAIN lb.attrs /\ lb.attrs[a].kind = "partial"}

\* C20: after any sequence of setup calls the system has the methods of the
\* most recent stage only: train iff it was fit, val iff it was validate or fit
\* with a val dataset, test iff it was test; and a setup whose required
\* dataset is missing exits and binds nothing.
C20_OnlyMethodsOfStage ==
    lb.stage # "None" =>
      /\ lb.exited <=> dataset_required_by_stage(lb.stage) \notin lb.datasets
      /\ lb.exited => lb.attrs = lb.before
      /\ ~lb.exited =>
            /\ "train" \in HasMethods <=> lb.stage = "fit"
            /\ "val" \in HasMethods <=>
                  (lb.stage = "validate" \/ (lb.stage = "fit" /\ "val" \in lb.datasets))
            /\ "test" \in HasMethods <=> lb.stage = "test"

\* the datasets and samplers a mode uses
UsedBy(m) ==
    IF m \in {"fit", "tune"}
    THEN {"train_dataset", "train_sampler", "val_dataset", "val_sampler"}
    ELSE IF m = "validate" THEN {"val_dataset", "val_sampler"}
    ELSE IF m = "test" THEN {"test_dataset", "test_sampler"}
    ELSE {}

\* C21: the System is handed only the datasets and samplers its mode uses
\* (train and val for fit and tune, val for validate, test for test), those
\* being the configured ones among them; in any other mode, predict included,
\* run logs one error and exits with no trainer, System, optimizer or scheduler
\* instantiated and no trainer method invoked.
C21_DatasetFilter ==
    run.pc # "called" =>
      /\ \A k \in RunAt("System") :
            /\ run.events[k].given \cap DataFields \subseteq UsedBy(run.mode)
            /\ run.events[k].given \cap DataFields = run.conf.set \cap UsedBy(run.mode)
      /\ run.mode \in SupportedModes => Cardinality(RunAt("System")) = 1
      /\ run.mode \notin SupportedModes =>
            /\ run.pc = "exited"
            /\ Cardinality(RunAt("error")) = 1
            /\ run.events[Len(run.events)].ev = "exit"
            /\ \A ev \in {"Trainer", "System", "optimizers", "schedulers"} : RunAt(ev) = {}
            /\ \A m \in {"fit", "validate", "predict", "test", "tune"} :
                  RunAt("trainer." \o m) = {}

\* `validate` has run with every dataset and sampler configured: the System
\* got the val dataset and the val sampler and nothing of train or test
C21_Witness ==
    /\ run.pc = "returned" /\ run.mode = "validate"
    /\ run.conf.set = DataFields
    /\ \E k \in RunAt("System") : run.events[k].given = {"val_dataset", "val_sampler"}

\* `predict` has exited after its error, with every dataset configured
C21_WitnessPredict ==
    /\ run.pc = "exited" /\ run.mode = "predict"
    /\ run.conf.set = DataFields /\ run.conf.optimizers = "DictConfig"
    /\ RunAt("error") # {}

=============================================================================
